---------------------------- MODULE Spec2Model ----------------------------
(***************************************************************************)
(* TypeMap (dora-core/src/server/typemap.rs): a lazily allocated HashMap    *)
(* from TypeId to Box<dyn Any>, holding at most one value per type.         *)
(*                                                                         *)
(* Option<X> is a sequence: << >> is None, <<x>> is Some(x).                *)
(* A Box<dyn Any> is a record [ty, val]: the concrete type the box was      *)
(* created from and the value it owns.                                      *)
(* The HashMap is a set of entries [hash, key, box]; a lookup compares the  *)
(* hash and then the key, as the std table does.                            *)
(***************************************************************************)
EXTENDS Integers, FiniteSets, Sequences, TLC

\* Bounds of the model: the number of distinct static types and the largest value.
NumTypes == 2
MaxVal == 1

Types == 1..NumTypes
Values == 0..MaxVal

None == << >>
Some(x) == << x >>
Unwrap(o) == o[1]

(***************************************************************************)
(* TypeId::of::<T>(): the compiler gives every type its own identifier.     *)
(***************************************************************************)
\* An identifier taken from the representation: types of one layout share it.
TypeIdOfLayout(T) == NumTypes + 1

TypeIdOf(T) == NumTypes + T

TypeIds == { TypeIdOf(T) : T \in Types }

(***************************************************************************)
(* TypeIdHash: the hasher state is one u64; write_u64 stores the id,        *)
(* finish returns the state.                                                *)
(***************************************************************************)
TypeIdHashDefault == 0

\* The u64 values the hasher is fed in the model; they include every TypeId.
HashIds == 0..(2 * NumTypes)

\* write_u64 that mixes the new word into the old state instead of storing it.
MixU64(self, id) == self + id

write_u64(self, id) == id

finish(self) == self

\* TypeIdHash::write(&[u8]): unreachable!() halts, the state is left as it was.
write(self, bytes) == [state |-> self, halt |-> TRUE]

\* impl Hash for TypeId, as line 16 states it: "TypeId calls write_u64".
HashTypeId(self, k) == [state |-> write_u64(self, k), halt |-> FALSE]

\* BuildHasherDefault<TypeIdHash>: a default hasher, fed the key, finished.
HashOf(k) == finish(HashTypeId(TypeIdHashDefault, k).state)

(***************************************************************************)
(* Box<dyn Any + Send + Sync> and its checked casts.                        *)
(***************************************************************************)
BoxNew(T, val) == [ty |-> T, val |-> val]

Boxes == [ty : Types, val : Values]

\* Any::is::<T>(): compares the box's own type id with TypeId::of::<T>().
IsType(boxed, T) == TypeIdOf(boxed.ty) = TypeIdOf(T)

\* Box<dyn Any>::downcast::<T>() : Result<Box<T>, Box<dyn Any>>
Downcast(boxed, T) ==
    IF IsType(boxed, T) THEN [ok |-> TRUE, val |-> boxed.val]
    ELSE [ok |-> FALSE, val |-> boxed]

\* The closure written with .downcast().expect(..): a failed downcast halts.
RecoverOrHalt(boxed, T) ==
    LET r == Downcast(boxed, T)
    IN  [ret |-> IF r.ok THEN Some(r.val) ELSE None, halt |-> ~r.ok]

\* The closure written without the type check (an unchecked cast).
RecoverUnchecked(boxed, T) == [ret |-> Some(boxed.val), halt |-> FALSE]

\* |boxed| (boxed as Box<dyn Any>).downcast().ok().map(|x| *x)
Recover(boxed, T) ==
    LET r == Downcast(boxed, T)
    IN  [ret |-> IF r.ok THEN Some(r.val) ELSE None, halt |-> FALSE]

\* Option::and_then(closure) over the box the table handed back.
AndThenRecover(old, T) ==
    IF old = None THEN [ret |-> None, halt |-> FALSE] ELSE Recover(Unwrap(old), T)

\* (**boxed).downcast_ref::<T>()
DowncastRef(boxed, T) == IF IsType(boxed, T) THEN Some(boxed.val) ELSE None

(***************************************************************************)
(* AnyTypeMap = HashMap<TypeId, Box<dyn Any>, BuildHasherDefault<..>>       *)
(***************************************************************************)
HashMapDefault == {}

Slot(h, k) == { e \in h : e.hash = HashOf(k) /\ e.key = k }

HashMapGet(h, k) ==
    IF Slot(h, k) = {} THEN None
    ELSE Some((CHOOSE e \in Slot(h, k) : TRUE).box)

HashMapInsertKeepOld(h, k, boxed) ==
    [map |-> h \cup {[hash |-> HashOf(k), key |-> k, box |-> boxed]},
     old |-> HashMapGet(h, k)]

HashMapInsert(h, k, boxed) ==
    [map |-> (h \ Slot(h, k)) \cup {[hash |-> HashOf(k), key |-> k, box |-> boxed]},
     old |-> HashMapGet(h, k)]

HashMapRemove(h, k) ==
    [map |-> h \ Slot(h, k), old |-> HashMapGet(h, k)]

HashMapClear(h) == {}

(***************************************************************************)
(* TypeMap                                                                 *)
(***************************************************************************)
VARIABLES
    map,            \* TypeMap.map : Option<Box<AnyTypeMap>>
    last,           \* the most recent call: operation, type, argument, result
    prev,           \* the call before it
    live,           \* types whose latest insert was not followed by remove/clear
    everInserted,   \* insert was called on this map
    allocs,         \* number of times the backing store was allocated
    hasher          \* a TypeIdHash on its own: the u64 it holds

vars == << map, last, prev, live, everInserted, allocs, hasher >>

Call(op, T, arg, raw, ret, halt) ==
    [op |-> op, ty |-> T, arg |-> arg, raw |-> raw, ret |-> ret, halt |-> halt]

\* TypeMap::new()
new == None

\* self.map.insert(Box::new(HashMap::default())): a fresh table on every call.
AlwaysFreshTable(m) == [map |-> HashMapDefault, allocated |-> TRUE]

\* An empty table is taken for a missing one and allocated again.
ReallocWhenEmpty(m) ==
    IF m = None \/ Unwrap(m) = HashMapDefault
        THEN [map |-> HashMapDefault, allocated |-> TRUE]
        ELSE [map |-> Unwrap(m), allocated |-> FALSE]

\* self.map.get_or_insert_with(|| Box::new(HashMap::default()))
GetOrInsertWith(m) ==
    IF m = None THEN [map |-> HashMapDefault, allocated |-> TRUE]
    ELSE [map |-> Unwrap(m), allocated |-> FALSE]

\* insert written with entry().or_insert(): an existing value is kept.
insert_keep_existing(m, T, val) ==
    LET g == GetOrInsertWith(m)
        old == HashMapGet(g.map, TypeIdOf(T))
        r == IF old = None THEN HashMapInsert(g.map, TypeIdOf(T), BoxNew(T, val))
             ELSE [map |-> g.map, old |-> old]
    IN  [map |-> Some(r.map),
         raw |-> r.old,
         ret |-> AndThenRecover(r.old, T).ret,
         halt |-> AndThenRecover(r.old, T).halt,
         allocated |-> g.allocated]

\* insert that drops the replaced box instead of handing it back.
insert_drop_old(m, T, val) ==
    LET g == GetOrInsertWith(m)
        r == HashMapInsert(g.map, TypeIdOf(T), BoxNew(T, val))
    IN  [map |-> Some(r.map), raw |-> r.old, ret |-> None, halt |-> FALSE,
         allocated |-> g.allocated]

\* TypeMap::insert::<T>(val)
insert(m, T, val) ==
    LET g == GetOrInsertWith(m)
        r == HashMapInsert(g.map, TypeIdOf(T), BoxNew(T, val))
    IN  [map |-> Some(r.map),
         raw |-> r.old,
         ret |-> AndThenRecover(r.old, T).ret,
         halt |-> AndThenRecover(r.old, T).halt,
         allocated |-> g.allocated]

\* TypeMap::get::<T>()
get(m, T) ==
    IF m = None THEN None
    ELSE LET boxed == HashMapGet(Unwrap(m), TypeIdOf(T))
         IN  IF boxed = None THEN None ELSE DowncastRef(Unwrap(boxed), T)

\* TypeMap::get_mut::<T>(): the entry the returned &mut T points into.
get_mut(m, T) ==
    IF m = None THEN None
    ELSE LET hit == Slot(Unwrap(m), TypeIdOf(T))
             e == CHOOSE x \in hit : TRUE
         IN  IF hit = {} THEN None
             ELSE IF IsType(e.box, T) THEN Some(e) ELSE None   \* downcast_mut

\* The write lands in a copy of the value, not in the stored one.
WriteToCopy(m, r, w) == m

\* *r = w through the reference r = get_mut::<T>().unwrap()
WriteThrough(m, r, w) ==
    Some((Unwrap(m) \ {r}) \cup {[r EXCEPT !.box.val = w]})

\* remove that reads the entry and leaves it in the table.
remove_peek(m, T) ==
    IF m = None THEN [map |-> m, raw |-> None, ret |-> None, halt |-> FALSE]
    ELSE LET old == HashMapGet(Unwrap(m), TypeIdOf(T))
         IN  [map |-> m,
              raw |-> old,
              ret |-> AndThenRecover(old, T).ret,
              halt |-> AndThenRecover(old, T).halt]

\* remove that empties the whole table.
remove_all(m, T) ==
    IF m = None THEN [map |-> m, raw |-> None, ret |-> None, halt |-> FALSE]
    ELSE LET old == HashMapGet(Unwrap(m), TypeIdOf(T))
         IN  [map |-> Some(HashMapClear(Unwrap(m))),
              raw |-> old,
              ret |-> AndThenRecover(old, T).ret,
              halt |-> AndThenRecover(old, T).halt]

\* remove that takes the entry out and does not hand the value back.
remove_forget(m, T) ==
    IF m = None THEN [map |-> m, raw |-> None, ret |-> None, halt |-> FALSE]
    ELSE LET r == HashMapRemove(Unwrap(m), TypeIdOf(T))
         IN  [map |-> Some(r.map), raw |-> r.old, ret |-> None, halt |-> FALSE]

\* remove that frees the table once it holds nothing.
remove_shrink(m, T) ==
    IF m = None THEN [map |-> m, raw |-> None, ret |-> None, halt |-> FALSE]
    ELSE LET r == HashMapRemove(Unwrap(m), TypeIdOf(T))
         IN  [map |-> IF r.map = {} THEN None ELSE Some(r.map),
              raw |-> r.old,
              ret |-> AndThenRecover(r.old, T).ret,
              halt |-> AndThenRecover(r.old, T).halt]

\* TypeMap::remove::<T>()
remove(m, T) ==
    IF m = None THEN [map |-> m, raw |-> None, ret |-> None, halt |-> FALSE]
    ELSE LET r == HashMapRemove(Unwrap(m), TypeIdOf(T))
         IN  [map |-> Some(r.map),
              raw |-> r.old,
              ret |-> AndThenRecover(r.old, T).ret,
              halt |-> AndThenRecover(r.old, T).halt]

\* clear that forgets to empty the table.
clear_noop(m) == m

\* clear written as self.map.get_or_insert_with(..).clear(): it allocates.
clear_alloc(m) == Some(HashMapDefault)

\* clear written as self.map = None: the table is freed.
clear_dealloc(m) == None

\* TypeMap::clear()
clear(m) == IF m = None THEN m ELSE Some(HashMapClear(Unwrap(m)))

(***************************************************************************)
(* Initial state and the operations as actions.                            *)
(***************************************************************************)
Init ==
    /\ map = new
    /\ last = Call("new", 0, None, None, None, FALSE)
    /\ prev = Call("new", 0, None, None, None, FALSE)
    /\ live = {}
    /\ everInserted = FALSE
    /\ allocs = 0
    /\ hasher = TypeIdHashDefault

\* A halted program takes no further step: every operation needs Running.
Running == ~last.halt

New ==
    /\ Running
    /\ map' = new
    /\ prev' = last
    /\ last' = Call("new", 0, None, None, None, FALSE)
    /\ live' = {}
    /\ everInserted' = FALSE
    /\ allocs' = 0
    /\ UNCHANGED hasher

Insert(T, val) ==
    LET r == insert(map, T, val) IN
    /\ Running
    /\ map' = r.map
    /\ prev' = last
    /\ last' = Call("insert", T, Some(val), r.raw, r.ret, r.halt)
    /\ live' = live \cup {T}
    /\ everInserted' = TRUE
    /\ allocs' = allocs + (IF r.allocated THEN 1 ELSE 0)
    /\ UNCHANGED hasher

\* get written over get_or_insert_with: a lookup that allocates the table.
GetAllocating(T) ==
    /\ Running
    /\ map' = Some(GetOrInsertWith(map).map)
    /\ prev' = last
    /\ last' = Call("get", T, None, None, get(map, T), FALSE)
    /\ allocs' = allocs + (IF GetOrInsertWith(map).allocated THEN 1 ELSE 0)
    /\ UNCHANGED << live, everInserted, hasher >>

Get(T) ==
    /\ Running
    /\ prev' = last
    /\ last' = Call("get", T, None, None, get(map, T), FALSE)
    /\ UNCHANGED << map, live, everInserted, allocs, hasher >>

GetMut(T, w) ==
    LET r == get_mut(map, T) IN
    /\ Running
    /\ map' = IF r = None THEN map ELSE WriteThrough(map, Unwrap(r), w)
    /\ prev' = last
    /\ last' = Call("get_mut", T, IF r = None THEN None ELSE Some(w), None,
                    IF r = None THEN None ELSE Some(Unwrap(r).box.val), FALSE)
    /\ UNCHANGED << live, everInserted, allocs, hasher >>

Remove(T) ==
    LET r == remove(map, T) IN
    /\ Running
    /\ map' = r.map
    /\ prev' = last
    /\ last' = Call("remove", T, None, r.raw, r.ret, r.halt)
    /\ live' = live \ {T}
    /\ UNCHANGED << everInserted, allocs, hasher >>

Clear ==
    /\ Running
    /\ map' = clear(map)
    /\ prev' = last
    /\ last' = Call("clear", 0, None, None, None, FALSE)
    /\ live' = {}
    /\ UNCHANGED << everInserted, allocs, hasher >>

Next ==
    \/ New
    \/ \E T \in Types, val \in Values : Insert(T, val)
    \/ \E T \in Types : Get(T)
    \/ \E T \in Types, w \in Values : GetMut(T, w)
    \/ \E T \in Types : Remove(T)
    \/ Clear

Spec == Init /\ [][Next]_vars

(***************************************************************************)
(* The breach hypothesis: the table holds, under the identifier of a type   *)
(* T, a box created from another type.  No call sequence of TypeMap builds  *)
(* such a table (HolderMatchesKey below); it is the starting point for the  *)
(* question what insert and remove do when their downcast fails.            *)
(***************************************************************************)
InitBreach ==
    /\ \E T \in Types, b \in Boxes :
          /\ b.ty # T
          /\ b.val = 0      \* the cast looks at the type only, never at the value
          /\ map = Some({[hash |-> HashOf(TypeIdOf(T)), key |-> TypeIdOf(T), box |-> b]})
    /\ last = Call("new", 0, None, None, None, FALSE)
    /\ prev = Call("new", 0, None, None, None, FALSE)
    /\ live = {}
    /\ everInserted = TRUE
    /\ allocs = 1
    /\ hasher = TypeIdHashDefault

SpecBreach == InitBreach /\ [][Next]_vars

(***************************************************************************)
(* The hasher on its own: a TypeIdHash is built, fed and finished.  HashKey *)
(* is the one use the map makes of it: a default hasher hashes a TypeId.    *)
(***************************************************************************)
HasherDefault ==
    /\ Running
    /\ hasher' = TypeIdHashDefault
    /\ prev' = last
    /\ last' = Call("default", 0, None, None, None, FALSE)
    /\ UNCHANGED << map, live, everInserted, allocs >>

HasherWriteU64(id) ==
    /\ Running
    /\ hasher' = write_u64(hasher, id)
    /\ prev' = last
    /\ last' = Call("write_u64", 0, Some(id), None, None, FALSE)
    /\ UNCHANGED << map, live, everInserted, allocs >>

HasherWrite(bytes) ==
    /\ Running
    /\ hasher' = write(hasher, bytes).state
    /\ prev' = last
    /\ last' = Call("write", 0, Some(bytes), None, None, write(hasher, bytes).halt)
    /\ UNCHANGED << map, live, everInserted, allocs >>

HasherFinish ==
    /\ Running
    /\ prev' = last
    /\ last' = Call("finish", 0, None, None, Some(finish(hasher)), FALSE)
    /\ UNCHANGED << map, live, everInserted, allocs, hasher >>

HashKey(T) ==
    LET h == HashTypeId(TypeIdHashDefault, TypeIdOf(T)) IN
    /\ Running
    /\ hasher' = h.state
    /\ prev' = last
    /\ last' = Call("hash", T, Some(TypeIdOf(T)), None, Some(finish(h.state)), h.halt)
    /\ UNCHANGED << map, live, everInserted, allocs >>

NextHasher ==
    \/ HasherDefault
    \/ \E id \in HashIds : HasherWriteU64(id)
    \/ \E b \in Values : HasherWrite(<< b >>)
    \/ HasherFinish
    \/ \E T \in Types : HashKey(T)

SpecHasher == Init /\ [][NextHasher]_vars

(***************************************************************************)
(* Observers used by the properties.                                       *)
(***************************************************************************)
\* The entries of the backing store (none while it is unallocated).
Entries(m) == IF m = None THEN {} ELSE Unwrap(m)

\* The values held in boxes created from type T.
StoredValues(m, T) == { e.box.val : e \in { x \in Entries(m) : x.box.ty = T } }

\* Every box sits under the identifier of the type it was created from.
HolderMatchesKey(m) == \A e \in Entries(m) : e.key = TypeIdOf(e.box.ty)

(***************************************************************************)
(* C1: from any reachable state, insert(v) of type T followed immediately   *)
(* by get::<T>() returns a present reference equal to v.                    *)
(***************************************************************************)
C1_InsertThenGet ==
    (prev.op = "insert" /\ last.op = "get" /\ last.ty = prev.ty)
        => (last.ret # None /\ last.ret = prev.arg)

C1_Witness ==
    /\ prev.op = "insert" /\ prev.ret = Some(0) /\ prev.arg = Some(1)
    /\ last.op = "get" /\ last.ty = prev.ty /\ last.ret = Some(1)

(***************************************************************************)
(* C2: insert-replace law.  insert(v2) of type T returns Some(v1) exactly   *)
(* when v1 of type T is stored immediately before the call and None exactly *)
(* when no value of type T is stored; afterwards get::<T>() returns v2.     *)
(***************************************************************************)
C2_InsertReplace ==
    [][ last'.op = "insert" =>
          /\ (last'.ret = None) <=> (StoredValues(map, last'.ty) = {})
          /\ last'.ret # None => StoredValues(map, last'.ty) = {Unwrap(last'.ret)}
          /\ get(map', last'.ty) = last'.arg ]_vars

C2_Witness ==
    /\ last.op = "insert" /\ last.ret = Some(0) /\ last.arg = Some(1)
    /\ get(map, last.ty) = Some(1)

(***************************************************************************)
(* C3: remove law.  Where v of type T is stored, remove::<T>() returns      *)
(* Some(v); immediately afterwards get::<T>() and a second remove::<T>()    *)
(* return None, and get::<T>() stays None until a value of type T is        *)
(* inserted.                                                                *)
(***************************************************************************)
C3_RemoveLaw ==
    [][ /\ (last'.op = "remove" /\ StoredValues(map, last'.ty) # {}) =>
              /\ last'.ret # None
              /\ StoredValues(map, last'.ty) = {Unwrap(last'.ret)}
              /\ get(map', last'.ty) = None
              /\ remove(map', last'.ty).ret = None
        /\ (prev'.op = "remove" /\ prev'.ret # None
              /\ last'.op \in {"get", "remove"} /\ last'.ty = prev'.ty)
              => last'.ret = None
        /\ \A T \in Types :
              (get(map, T) = None /\ get(map', T) # None)
                  => (last'.op = "insert" /\ last'.ty = T) ]_vars

C3_Witness ==
    /\ prev.op = "remove" /\ prev.ret = Some(1)
    /\ last.op = "remove" /\ last.ty = prev.ty /\ last.ret = None

(***************************************************************************)
(* C4: clear law.  After clear() the store holds no entries, so get::<T>()  *)
(* is None for every type; an insert right after clear() behaves as on an   *)
(* empty map: it returns None and get then returns the inserted value.      *)
(***************************************************************************)
C4_ClearLaw ==
    /\ last.op = "clear" =>
          /\ Entries(map) = {}
          /\ \A T \in Types : get(map, T) = None
    /\ (prev.op = "clear" /\ last.op = "insert") =>
          /\ last.ret = None
          /\ get(map, last.ty) = last.arg

C4_Witness ==
    /\ prev.op = "insert" /\ last.op = "clear"
    /\ map = Some({}) /\ \A T \in Types : get(map, T) = None

(***************************************************************************)
(* C5: type independence of insert.  For distinct types T and U, insert of  *)
(* a value of type T changes neither the presence nor the value of U,       *)
(* whether it adds an entry, replaces one or allocates the backing store.   *)
(***************************************************************************)
C5_InsertFrame ==
    [][ last'.op = "insert" =>
          \A U \in Types \ {last'.ty} :
              /\ get(map', U) = get(map, U)
              /\ StoredValues(map', U) = StoredValues(map, U) ]_vars

C5_Witness ==
    /\ last.op = "insert" /\ last.ret # None
    /\ \E U \in Types \ {last.ty} : get(map, U) = Some(1)


(***************************************************************************)
(* C6: values of two different types never collide, even when equal: both   *)
(* inserts return None, each get returns the value inserted under its own   *)
(* type, and get::<T>() never returns a value inserted as another type.     *)
(***************************************************************************)
C6_NoCollision ==
    [][ /\ (/\ last.op = "insert" /\ last.ret = None
            /\ last'.op = "insert" /\ last'.ty # last.ty /\ last'.arg = last.arg
            /\ StoredValues(map, last'.ty) = {})
           => /\ last'.ret = None
              /\ get(map', last.ty) = last.arg
              /\ get(map', last'.ty) = last'.arg
        /\ HolderMatchesKey(map')
        /\ \A T \in Types :
              get(map', T) # None => Unwrap(get(map', T)) \in StoredValues(map', T) ]_vars

C6_Witness ==
    /\ prev.op = "insert" /\ prev.ret = None
    /\ last.op = "insert" /\ last.ret = None
    /\ last.ty # prev.ty /\ last.arg = prev.arg
    /\ get(map, prev.ty) = prev.arg /\ get(map, last.ty) = last.arg

(***************************************************************************)
(* C7: no-allocation law.  While insert has never been called on the map,   *)
(* new, get, get_mut, remove and clear leave the backing store unallocated; *)
(* get, get_mut and remove return None and clear changes nothing.           *)
(***************************************************************************)
C7_NoAllocation ==
    ~everInserted =>
        /\ map = None
        /\ allocs = 0
        /\ last.op \in {"get", "get_mut", "remove"} => last.ret = None

C7_Witness ==
    /\ ~everInserted /\ map = None
    /\ prev.op = "clear" /\ last.op = "remove" /\ last.ret = None

(***************************************************************************)
(* C8: mutation law.  get_mut::<T>() is present exactly when get::<T>() is, *)
(* it refers to the stored value, and a change made through it is what a    *)
(* following get::<T>() returns.                                            *)
(***************************************************************************)
C8_MutationLaw ==
    [][ /\ last'.op = "get_mut" =>
              /\ last'.ret = get(map, last'.ty)
              /\ last'.ret # None => get(map', last'.ty) = last'.arg
              /\ last'.ret = None => map' = map
        /\ (prev'.op = "get_mut" /\ prev'.ret # None
              /\ last'.op = "get" /\ last'.ty = prev'.ty)
              => last'.ret = prev'.arg ]_vars

C8_Witness ==
    /\ prev.op = "get_mut" /\ prev.ret = Some(0) /\ prev.arg = Some(1)
    /\ last.op = "get" /\ last.ty = prev.ty /\ last.ret = Some(1)

(***************************************************************************)
(* C9: internal invariant breach.  Where the holder stored under the        *)
(* identifier of T does not contain a value of type T, the claim is that    *)
(* insert::<T> and remove::<T> halt the program (C9_Original).  The code    *)
(* turns the failed downcast into an absent result: the call returns None   *)
(* without halting, insert having stored the new value and remove having    *)
(* taken the entry out (C9_BreachReturnsNone).                              *)
(***************************************************************************)
Breached(c) ==
    /\ c.op \in {"insert", "remove"}
    /\ c.raw # None
    /\ Unwrap(c.raw).ty # c.ty

C10_AtMostOnePerType ==
    /\ \A k \in TypeIds : Cardinality({ e \in Entries(map) : e.key = k }) <= 1
    /\ { e.key : e \in Entries(map) } = { TypeIdOf(T) : T \in live }
    /\ { T \in Types : StoredValues(map, T) # {} } = live

C10_Witness ==
    /\ prev.op = "remove" /\ prev.ret # None
    /\ last.op = "insert" /\ last.ty = prev.ty /\ last.ret = None
    /\ Cardinality(Entries(map)) = 2 /\ Cardinality(live) = 2

(***************************************************************************)
(* C11: the backing store is allocated only by the first insert on a map;   *)
(* every later insert, also after clear() or after every entry was removed, *)
(* reuses the allocated store, so a map allocates it at most once.          *)
(***************************************************************************)
C11_AllocOnce ==
    [][ /\ allocs' <= 1
        /\ allocs' > allocs =>
              (last'.op = "insert" /\ map = None /\ ~everInserted)
        /\ (last'.op = "insert" /\ map # None) => allocs' = allocs
        /\ (map # None /\ last'.op # "new") => map' # None ]_vars

C11_Witness ==
    /\ prev.op = "remove" /\ prev.ret # None
    /\ last.op = "insert" /\ last.ret = None
    /\ Cardinality(Entries(map)) = 1 /\ allocs = 1

(***************************************************************************)
(* C12: clear() on an allocated backing store leaves it allocated and       *)
(* empty, never unallocated; clear() on an unallocated map leaves it        *)
(* unallocated.                                                             *)
(***************************************************************************)
C12_ClearKeepsStore ==
    [][ last'.op = "clear" =>
          /\ map # None => (map' = Some(HashMapDefault) /\ map' # None)
          /\ map = None => map' = None
          /\ allocs' = allocs ]_vars

C12_Witness ==
    /\ prev.op = "remove" /\ prev.ret # None
    /\ last.op = "clear" /\ map = Some(HashMapDefault) /\ allocs = 1

(***************************************************************************)
(* C13: get::<T>() never changes the map: entries, values and the           *)
(* allocation status are the same before and after the call, whether or not *)
(* a value of type T is present.                                            *)
(***************************************************************************)
C13_GetFrame ==
    [][ last'.op = "get" =>
          /\ map' = map
          /\ (map' = None) <=> (map = None)
          /\ allocs' = allocs ]_vars

C13_Witness ==
    /\ prev.op = "get" /\ prev.ret # None
    /\ last.op = "get" /\ last.ret = None
    /\ map # None

(***************************************************************************)
(* C14: type independence of remove.  For distinct types T and U,           *)
(* remove::<T>() leaves the presence and the value of U unchanged; with     *)
(* equal values stored for A and B, get of B still returns its value after  *)
(* A was removed.                                                           *)
(***************************************************************************)
C14_RemoveFrame ==
    [][ last'.op = "remove" =>
          \A U \in Types \ {last'.ty} :
              /\ get(map', U) = get(map, U)
              /\ StoredValues(map', U) = StoredValues(map, U) ]_vars

C14_Witness ==
    /\ last.op = "remove" /\ last.ret = Some(1)
    /\ \E U \in Types \ {last.ty} : get(map, U) = Some(1)

(***************************************************************************)
(* C15: ownership conservation.  In every call of one map, the boxes held   *)
(* before plus the value moved in equal the boxes held after plus the value *)
(* handed back plus the boxes clear() dropped; a value handed back was the  *)
(* stored one and is no longer stored, and it is not handed back twice.     *)
(***************************************************************************)
MovedIn(c) == IF c.op = "insert" THEN 1 ELSE 0

HandedBack(c) == IF c.op \in {"insert", "remove"} /\ c.ret # None THEN 1 ELSE 0

DroppedBy(c, m) == IF c.op = "clear" THEN Cardinality(Entries(m)) ELSE 0

C15_Ownership ==
    [][ last'.op # "new" =>
          /\ Cardinality(Entries(map)) + MovedIn(last')
                = Cardinality(Entries(map')) + HandedBack(last') + DroppedBy(last', map)
          /\ HandedBack(last') = 1 =>
                /\ StoredValues(map, last'.ty) = {Unwrap(last'.ret)}
                /\ last'.raw = Some(BoxNew(last'.ty, Unwrap(last'.ret)))
          /\ (last'.op = "remove" /\ last'.ret # None) =>
                StoredValues(map', last'.ty) = {}
          /\ last'.op = "insert" =>
                StoredValues(map', last'.ty) = {Unwrap(last'.arg)}
          /\ (prev'.op = "remove" /\ last'.op = "remove" /\ last'.ty = prev'.ty)
                => HandedBack(prev') + HandedBack(last') <= 1 ]_vars

C15_Witness ==
    /\ prev.op = "insert" /\ prev.arg = Some(1) /\ prev.ret = Some(0)
    /\ last.op = "remove" /\ last.ty = prev.ty /\ last.ret = Some(1)
    /\ Cardinality(Entries(map)) = 1

(***************************************************************************)
(* C16: remove::<T>() with no value of type T stored returns None and       *)
(* leaves every entry and the allocation status unchanged, on an allocated  *)
(* map as on an unallocated one.                                            *)
(***************************************************************************)
C16_RemoveAbsent ==
    [][ (last'.op = "remove" /\ StoredValues(map, last'.ty) = {}) =>
          /\ last'.ret = None
          /\ map' = map
          /\ allocs' = allocs ]_vars

C16_Witness ==
    /\ prev.op = "clear"
    /\ last.op = "remove" /\ last.ret = None
    /\ map = Some(HashMapDefault)

(***************************************************************************)
(* C17: the key hasher is a pass-through.  Starting from state 0, finish()  *)
(* returns the value given to the most recent write_u64 (0 if none),        *)
(* unmixed and unchanged by finish itself; hashing a TypeId, the one use    *)
(* the map makes of the hasher, yields the identifier and never takes the   *)
(* byte-slice write path, which halts the program.                          *)
(***************************************************************************)
C17_PassThroughHash ==
    /\ last.op = "default" => hasher = 0
    /\ last.op = "write_u64" => hasher = Unwrap(last.arg)
    /\ last.op = "finish" => last.ret = Some(hasher)
    /\ (prev.op \in {"new", "default"} /\ last.op = "finish") => last.ret = Some(0)
    /\ (prev.op = "write_u64" /\ last.op = "finish") => last.ret = prev.arg
    /\ (prev.op = "finish" /\ last.op = "finish") => last.ret = prev.ret
    /\ last.op = "hash" =>
          /\ last.ret = last.arg
          /\ last.ret = Some(HashOf(TypeIdOf(last.ty)))
          /\ ~last.halt
    /\ last.op = "write" <=> last.halt

C17_Witness ==
    /\ prev.op = "write_u64" /\ prev.arg = Some(2 * NumTypes)
    /\ last.op = "finish" /\ last.ret = Some(2 * NumTypes)

=============================================================================
